---- MODULE Spec2Model ----
(***************************************************************************)
(* The fintech REST API: POST /accounts, GET /accounts/:id, POST /deposits *)
(* and GET /transactions over a PostgreSQL store with three tables (users, *)
(* accounts, transactions).                                                 *)
(*                                                                         *)
(* Units.  A JavaScript amount is held in mills (1/1000 of a currency      *)
(* unit), so that amounts with three fractional digits exist; a            *)
(* NUMERIC(15,2) column value is held in cents.  ToNumeric2 is the store's *)
(* rounding of a number to the column's scale and parseFloat is the way    *)
(* back.                                                                    *)
(*                                                                         *)
(* Store.  accounts and transactions are the committed tables.  A deposit  *)
(* runs in an explicit transaction at READ COMMITTED: its INSERT and its   *)
(* UPDATE stay in tx[p] (visible to nobody else) until COMMIT applies both *)
(* at once; an UPDATE waits while another open transaction has written the *)
(* same account row.  pool.query statements run in autocommit.             *)
(***************************************************************************)
EXTENDS Integers, Sequences, FiniteSets, TLC

\* ---------------------------------------------------------------- bounds
MaxProcs == 2
MaxAccounts == 2
MaxRequests == 3
MaxFaults == 2
MaxClock == 1
MaxListRequests == 5

Procs == 1..MaxProcs

\* --------------------------------------------------------- program data
\* the two seeded demo users (demo@qa.com, second-demo@qa.com)
Users == {"u1", "u2"}

\* accountId values of a request: undefined (or any falsy value), a string
\* that is not a UUID, a well-formed UUID that no account has, or the UUID
\* of the n-th account created.
MissingId == -2
MalformedId == -1
UnknownId == 0

NoRow == [id |-> 0, user_id |-> "", currency |-> "", balance |-> 0]
NoEntry == [id |-> 0, account_id |-> 0, type |-> "", amount |-> 0,
            reference |-> "", created_at |-> 0, xmin |-> 0]

VARIABLES
    users,         \* committed users table: the set of user ids
    accounts,      \* committed accounts table: id -> row
    transactions,  \* committed transactions table: set of rows
    nextAccountId, \* gen_random_uuid() for accounts
    nextTxnId,     \* gen_random_uuid() for transactions
    clock,         \* the store's clock (NOW(), CURRENT_TIMESTAMP)
    nextReq,       \* requests received so far + 1; also the transaction id
    faultsLeft,    \* store faults the environment may still inject
    pc,            \* per handler: position in the handler's code
    req,           \* per handler: the request being served
    local,         \* per handler: the handler's local variables
    tx,            \* per handler: the open transaction of its pool client
    resp           \* per handler: the response sent

vars == <<users, accounts, transactions, nextAccountId, nextTxnId, clock, nextReq,
          faultsLeft, pc, req, local, tx, resp>>

dbVars == <<users, accounts, transactions, nextAccountId, nextTxnId>>

\* ------------------------------------------------------------ conversions
\* the store's assignment cast of a number (mills) to NUMERIC(15,2) (cents):
\* rounds to two fractional digits, ties away from zero
ToNumeric2(m) == IF m >= 0 THEN (m + 5) \div 10 ELSE -((5 - m) \div 10)

\* parseFloat of the text the driver returns for a NUMERIC(15,2) value
ParseFloat(c) == c * 10

\* Number.prototype.toFixed(2) of a number in mills, as cents
ToFixed2(m) == IF m >= 0 THEN (m + 5) \div 10 ELSE -((5 - m) \div 10)

\* SQL values of the nullable reference column
SqlNull == [null |-> TRUE, text |-> ""]
SqlText(s) == [null |-> FALSE, text |-> s]

\* `reference || null`: undefined and the empty string are both falsy
OrNull(reference) == IF reference = "" THEN SqlNull ELSE SqlText(reference)

\* parseInt(s, 10) of a string given as a sequence of characters: optional
\* sign, then the longest prefix of decimal digits; NaN when there is none
Digits == <<"0", "1", "2", "3", "4", "5", "6", "7", "8", "9">>
IsDigit(c) == \E i \in 1..10 : Digits[i] = c
DigitVal(c) == (CHOOSE i \in 1..10 : Digits[i] = c) - 1
NaN == [nan |-> TRUE, val |-> 0]
Num(n) == [nan |-> FALSE, val |-> n]

RECURSIVE DigitPrefix(_, _, _)
DigitPrefix(s, i, acc) ==
    IF i > Len(s) \/ ~IsDigit(s[i]) THEN acc
    ELSE DigitPrefix(s, i + 1, acc * 10 + DigitVal(s[i]))

\* the number of digits of the digit prefix from position i on, leading
\* zeros not counted
RECURSIVE SignificantDigits(_, _, _)
SignificantDigits(s, i, count) ==
    IF i > Len(s) \/ ~IsDigit(s[i]) THEN count
    ELSE IF count = 0 /\ s[i] = "0" THEN SignificantDigits(s, i + 1, 0)
    ELSE SignificantDigits(s, i + 1, count + 1)

\* 2^63 - 1, the largest bigint of the store, has 19 digits: a numeral of 20
\* or more significant digits is a number above it.  The model checker's
\* integers are narrower than that, so such a number is held as the stand-in
\* AboveBigint; every other numeral used here is short and held exactly.
BigintDigits == 20
AboveBigint == 2147483647

ParseInt(s) ==
    LET neg == Len(s) >= 1 /\ s[1] = "-"
        from == IF Len(s) >= 1 /\ s[1] \in {"-", "+"} THEN 2 ELSE 1
    IN  IF from > Len(s) \/ ~IsDigit(s[from]) THEN NaN
        ELSE IF SignificantDigits(s, from, 0) >= BigintDigits
        THEN (IF neg THEN Num(-AboveBigint) ELSE Num(AboveBigint))
        ELSE IF neg THEN Num(-DigitPrefix(s, from, 0))
        ELSE Num(DigitPrefix(s, from, 0))

\* a query-string parameter: absent, or a string
Absent == [present |-> FALSE, chars |-> <<>>]
Str(cs) == [present |-> TRUE, chars |-> cs]

\* `const { page = '1', limit = '20' } = req.query`
DefaultPage == <<"1">>
DefaultLimitTen == <<"1", "0">>
DefaultLimit == <<"2", "0">>
OrDefault(param, dflt) == IF param.present THEN param.chars ELSE dflt

MaxLimit == 100

\* ------------------------------------------------------------- responses
NoResp == [status |-> 0, code |-> "", message |-> "", transactionId |-> 0,
           newBalance |-> -1, id |-> 0, currency |-> "", balance |-> -1,
           items |-> <<>>, page |-> 0, limit |-> 0, total |-> -1, email |-> ""]

ErrorResp(status, code, message) ==
    [NoResp EXCEPT !.status = status, !.code = code, !.message = message]

\* ------------------------------------------------------------- requests
NoHeader == [scheme |-> "", userId |-> "", valid |-> FALSE]
Bearer(u, ok) == [scheme |-> "Bearer", userId |-> u, valid |-> ok]

Undefined == [type |-> "undefined", val |-> 0]
Number(m) == [type |-> "number", val |-> m]
String(m) == [type |-> "string", val |-> m]

NoReq == [op |-> "", no |-> 0, auth |-> NoHeader, accountId |-> MissingId,
          amount |-> Undefined, reference |-> "", page |-> Absent,
          limit |-> Absent, currency |-> "", path |-> ""]

\* client: the pool client of the handler, "none", "held" or "released";
\* txn: the transaction on that client, "none", "open" after BEGIN, "ended"
\* after a COMMIT or ROLLBACK that completed
NoLocal == [userId |-> "", account |-> NoRow, transactionId |-> 0,
            newBalance |-> -1, total |-> -1, pageNum |-> 0, limitNum |-> 0,
            client |-> "none", txn |-> "none", fault |-> FALSE]

NoTx == [xid |-> 0, start |-> 0, entry |-> NoEntry, balSet |-> FALSE,
         balAccount |-> 0, bal |-> 0]

\* ----------------------------------------------------------------- Init
InitWith(budget) ==
    /\ users = Users
    /\ accounts = <<>>
    /\ transactions = {}
    /\ nextAccountId = 1
    /\ nextTxnId = 1
    /\ clock = 0
    /\ nextReq = 1
    /\ faultsLeft = budget
    /\ pc = [p \in Procs |-> "idle"]
    /\ req = [p \in Procs |-> NoReq]
    /\ local = [p \in Procs |-> NoLocal]
    /\ tx = [p \in Procs |-> NoTx]
    /\ resp = [p \in Procs |-> NoResp]

\* after the migrations and the seed: two users, no account, no entry
Init == InitWith(MaxFaults)

\* --------------------------------------------------------- authMiddleware
\* the 401 response, or NoResp when next() is called with req.userId set
authMiddleware(hdr) ==
    IF hdr.scheme # "Bearer"
    THEN ErrorResp(401, "UNAUTHORIZED", "Missing or invalid authorization header")
    ELSE IF ~hdr.valid
    THEN ErrorResp(401, "UNAUTHORIZED", "Invalid or expired token")
    ELSE NoResp

\* ------------------------------------------------------------ the store
\* whether a store call of this step may be made to fail
MayFault == IF faultsLeft > 0 THEN {FALSE, TRUE} ELSE {FALSE}

\* SELECT ... FROM accounts WHERE id = $1 : the row, or NoRow for no rows
SelectAccount(id) ==
    IF id \in DOMAIN accounts
    THEN [id |-> id, user_id |-> accounts[id].user_id,
          currency |-> accounts[id].currency, balance |-> accounts[id].balance]
    ELSE NoRow

\* `account.user_id !== req.userId` negated: the row belongs to the caller
OwnedByAnyone(row, userId) == TRUE
Owns(row, userId) == row.user_id = userId

\* comparing a uuid column with a parameter that is not a UUID raises
\* "invalid input syntax for type uuid"
UuidError(id) == id = MalformedId

\* the account row is write-locked by another open transaction
RowLocked(p, id) == \E q \in Procs \ {p} : tx[q].balSet /\ tx[q].balAccount = id

\* a rejected promise leaves the async handler: the framework either hands it
\* to the error handler (500) or does not catch it, and the unhandled
\* rejection ends the process: no in-flight request is answered and the store
\* aborts the transactions of the closed connections
InFlight(q) == pc[q] \notin {"idle", "done", "hung"}

Escape(p, handled) ==
    IF handled
    THEN /\ pc' = [pc EXCEPT ![p] = "done"]
         /\ resp' = [resp EXCEPT ![p] =
                ErrorResp(500, "INTERNAL_ERROR", "An unexpected error occurred")]
         /\ tx' = [tx EXCEPT ![p] = NoTx]
    ELSE /\ pc' = [q \in Procs |-> IF q = p \/ InFlight(q) THEN "hung" ELSE pc[q]]
         /\ resp' = resp
         /\ tx' = [q \in Procs |-> IF q = p \/ InFlight(q) THEN NoTx ELSE tx[q]]

\* ------------------------------------------------------- POST /deposits
ValidateDepositAmountFirst(body) ==
    IF body.amount.type # "number" THEN "amount must be a number"
    ELSE IF body.amount.val <= 0 THEN "amount must be greater than 0"
    ELSE IF body.accountId = MissingId THEN "accountId is required"
    ELSE ""

ValidateDepositNoAccountId(body) ==
    IF body.amount.type # "number" THEN "amount must be a number"
    ELSE IF body.amount.val <= 0 THEN "amount must be greater than 0"
    ELSE ""

\* lines 14-40: the first failing check's message, "" when all pass
ValidateDeposit(body) ==
    IF body.accountId = MissingId THEN "accountId is required"
    ELSE IF body.amount.type # "number" THEN "amount must be a number"
    ELSE IF body.amount.val <= 0 THEN "amount must be greater than 0"
    ELSE ""

\* pool.connect() moved above the input checks: a rejected request has taken
\* and released a client
DepositRequestConnectFirst(p, hdr, body) ==
    /\ pc[p] = "idle"
    /\ nextReq' = nextReq + 1
    /\ req' = [req EXCEPT ![p] =
            [NoReq EXCEPT !.op = "deposit", !.no = nextReq, !.auth = hdr,
                          !.accountId = body.accountId, !.amount = body.amount,
                          !.reference = body.reference]]
    /\ IF authMiddleware(hdr).status # 0
       THEN /\ resp' = [resp EXCEPT ![p] = authMiddleware(hdr)]
            /\ pc' = [pc EXCEPT ![p] = "done"]
            /\ local' = local
       ELSE IF ValidateDeposit(body) # ""
       THEN /\ resp' = [resp EXCEPT ![p] =
                    ErrorResp(400, "VALIDATION_ERROR", ValidateDeposit(body))]
            /\ pc' = [pc EXCEPT ![p] = "done"]
            /\ local' = [local EXCEPT ![p].userId = hdr.userId,
                                      ![p].client = "released"]
       ELSE /\ resp' = resp
            /\ pc' = [pc EXCEPT ![p] = "begin"]
            /\ local' = [local EXCEPT ![p].userId = hdr.userId,
                                      ![p].client = "held"]
    /\ UNCHANGED <<dbVars, clock, faultsLeft, tx>>

\* the request arrives: authMiddleware, then the input checks
DepositRequest(p, hdr, body) ==
    /\ pc[p] = "idle"
    /\ nextReq' = nextReq + 1
    /\ req' = [req EXCEPT ![p] =
            [NoReq EXCEPT !.op = "deposit", !.no = nextReq, !.auth = hdr,
                          !.accountId = body.accountId, !.amount = body.amount,
                          !.reference = body.reference]]
    /\ IF authMiddleware(hdr).status # 0
       THEN /\ resp' = [resp EXCEPT ![p] = authMiddleware(hdr)]
            /\ pc' = [pc EXCEPT ![p] = "done"]
            /\ local' = local
       ELSE IF ValidateDeposit(body) # ""
       THEN /\ resp' = [resp EXCEPT ![p] =
                    ErrorResp(400, "VALIDATION_ERROR", ValidateDeposit(body))]
            /\ pc' = [pc EXCEPT ![p] = "done"]
            /\ local' = [local EXCEPT ![p].userId = hdr.userId]
       ELSE /\ resp' = resp
            /\ pc' = [pc EXCEPT ![p] = "connect"]
            /\ local' = [local EXCEPT ![p].userId = hdr.userId]
    /\ UNCHANGED <<dbVars, clock, faultsLeft, tx>>

\* line 42: pool.connect(), outside the try block
DepositConnect(p) ==
    /\ pc[p] = "connect"
    /\ \E f \in MayFault :
        IF f
        THEN /\ faultsLeft' = faultsLeft - 1
             /\ local' = [local EXCEPT ![p].fault = TRUE]
             /\ \E handled \in BOOLEAN : Escape(p, handled)
        ELSE /\ faultsLeft' = faultsLeft
             /\ local' = [local EXCEPT ![p].client = "held"]
             /\ pc' = [pc EXCEPT ![p] = "begin"]
             /\ UNCHANGED <<tx, resp>>
    /\ UNCHANGED <<dbVars, clock, nextReq, req>>

\* a store call of the try block throws: control goes to the catch block
Throw(p, injected) ==
    /\ faultsLeft' = IF injected THEN faultsLeft - 1 ELSE faultsLeft
    /\ local' = [local EXCEPT ![p].fault = @ \/ injected]
    /\ pc' = [pc EXCEPT ![p] = "catch"]

\* line 45: BEGIN; NOW() is the transaction's start time from here on
DepositBegin(p) ==
    /\ pc[p] = "begin"
    /\ \E f \in MayFault :
        IF f
        THEN Throw(p, TRUE) /\ tx' = tx
        ELSE /\ tx' = [tx EXCEPT ![p] = [NoTx EXCEPT !.xid = req[p].no,
                                                     !.start = clock]]
             /\ local' = [local EXCEPT ![p].txn = "open"]
             /\ pc' = [pc EXCEPT ![p] = "select"]
             /\ faultsLeft' = faultsLeft
    /\ UNCHANGED <<dbVars, clock, nextReq, req, resp>>

\* lines 48-74: read the account row, then the existence and ownership checks
DepositSelect(p) ==
    /\ pc[p] = "select"
    /\ \E f \in MayFault :
        IF f \/ UuidError(req[p].accountId)
        THEN Throw(p, f)
        ELSE LET row == SelectAccount(req[p].accountId) IN
             /\ local' = [local EXCEPT ![p].account = row]
             /\ pc' = [pc EXCEPT ![p] =
                    IF row = NoRow THEN "rollback404"
                    ELSE IF ~Owns(row, local[p].userId) THEN "rollback403"
                    ELSE "insert"]
             /\ faultsLeft' = faultsLeft
    /\ UNCHANGED <<dbVars, clock, nextReq, req, tx, resp>>

\* lines 54-60 and 67-73: ROLLBACK, then the 404 or 403 response; the finally
\* block releases the client
DepositReject(p) ==
    /\ pc[p] \in {"rollback404", "rollback403"}
    /\ \E f \in MayFault :
        IF f
        THEN Throw(p, TRUE) /\ UNCHANGED <<tx, resp>>
        ELSE /\ tx' = [tx EXCEPT ![p] = NoTx]
             /\ resp' = [resp EXCEPT ![p] =
                    IF pc[p] = "rollback404"
                    THEN ErrorResp(404, "NOT_FOUND", "Account not found")
                    ELSE ErrorResp(403, "FORBIDDEN",
                                   "You do not have access to this account")]
             /\ local' = [local EXCEPT ![p].client = "released",
                                       ![p].txn = "ended"]
             /\ pc' = [pc EXCEPT ![p] = "done"]
             /\ faultsLeft' = faultsLeft
    /\ UNCHANGED <<dbVars, clock, nextReq, req>>

\* the row the INSERT of lines 77-82 writes
NewEntry(p) ==
    [id |-> nextTxnId, account_id |-> req[p].accountId, type |-> "deposit",
     amount |-> ToNumeric2(req[p].amount.val),
     reference |-> OrNull(req[p].reference),
     created_at |-> tx[p].start, xmin |-> tx[p].xid]

\* the store's checks on that row: CHECK (amount > 0) and the foreign key to
\* accounts (the column's range, 10^13, is far above every amount used here)
InsertAccepted(e) ==
    /\ e.amount > 0
    /\ e.account_id \in DOMAIN accounts

\* lines 77-84: INSERT INTO transactions ... RETURNING id
DepositInsert(p) ==
    /\ pc[p] = "insert"
    /\ \E f \in MayFault :
        IF f \/ ~InsertAccepted(NewEntry(p))
        THEN Throw(p, f) /\ UNCHANGED <<tx, nextTxnId>>
        ELSE /\ tx' = [tx EXCEPT ![p].entry = NewEntry(p)]
             /\ nextTxnId' = nextTxnId + 1
             /\ local' = [local EXCEPT ![p].transactionId = nextTxnId]
             /\ pc' = [pc EXCEPT ![p] = "update"]
             /\ faultsLeft' = faultsLeft
    /\ UNCHANGED <<users, accounts, transactions, nextAccountId, clock, nextReq,
                   req, resp>>

\* line 87: parseFloat(account.balance) + amount
NewBalance(p) == ParseFloat(local[p].account.balance) + req[p].amount.val

\* the store's check on the new balance: CHECK (balance >= 0)
UpdateAccepted(c) == c >= 0

\* the UPDATE issued on the pool instead of the transaction's client: it
\* commits on its own
DepositUpdateOnPool(p) ==
    /\ pc[p] = "update"
    /\ req[p].accountId \in DOMAIN accounts
    /\ ~RowLocked(p, req[p].accountId)
    /\ accounts' = [accounts EXCEPT
            ![req[p].accountId].balance = ToNumeric2(NewBalance(p)),
            ![req[p].accountId].xmin = tx[p].xid]
    /\ local' = [local EXCEPT ![p].newBalance = NewBalance(p)]
    /\ pc' = [pc EXCEPT ![p] = "commit"]
    /\ UNCHANGED <<users, transactions, nextAccountId, nextTxnId, clock, nextReq,
                   faultsLeft, req, tx, resp>>

\* the UPDATE of a withdrawal on a column without CHECK (balance >= 0): the
\* amount is taken from the balance and the store accepts any result
DepositUpdateDebit(p) ==
    /\ pc[p] = "update"
    /\ ~RowLocked(p, req[p].accountId)
    /\ tx' = [tx EXCEPT ![p].balSet = req[p].accountId \in DOMAIN accounts,
                        ![p].balAccount = req[p].accountId,
                        ![p].bal = ToNumeric2(ParseFloat(local[p].account.balance)
                                              - req[p].amount.val)]
    /\ local' = [local EXCEPT ![p].newBalance =
                    ParseFloat(local[p].account.balance) - req[p].amount.val]
    /\ pc' = [pc EXCEPT ![p] = "commit"]
    /\ UNCHANGED <<dbVars, clock, nextReq, faultsLeft, req, resp>>

\* lines 87-91: UPDATE accounts SET balance = $1 WHERE id = $2; it waits for
\* the row lock while another open transaction has updated the row
DepositUpdate(p) ==
    /\ pc[p] = "update"
    /\ \E f \in MayFault :
        IF f \/ ~UpdateAccepted(ToNumeric2(NewBalance(p)))
        THEN Throw(p, f) /\ tx' = tx
        ELSE /\ ~RowLocked(p, req[p].accountId)
             /\ tx' = [tx EXCEPT ![p].balSet = req[p].accountId \in DOMAIN accounts,
                                 ![p].balAccount = req[p].accountId,
                                 ![p].bal = ToNumeric2(NewBalance(p))]
             /\ local' = [local EXCEPT ![p].newBalance = NewBalance(p)]
             /\ pc' = [pc EXCEPT ![p] = "commit"]
             /\ faultsLeft' = faultsLeft
    /\ UNCHANGED <<dbVars, clock, nextReq, req, resp>>

\* the committed tables after the transaction's writes become visible
CommittedTransactions(t) ==
    IF t.entry = NoEntry THEN transactions ELSE transactions \cup {t.entry}

\* the UPDATE without its WHERE id = $2
CommittedAccountsEveryRow(t) ==
    IF t.balSet
    THEN [a \in DOMAIN accounts |->
            [accounts[a] EXCEPT !.balance = t.bal, !.xmin = t.xid]]
    ELSE accounts

CommittedAccounts(t) ==
    IF t.balSet /\ t.balAccount \in DOMAIN accounts
    THEN [accounts EXCEPT ![t.balAccount].balance = t.bal,
                          ![t.balAccount].xmin = t.xid]
    ELSE accounts

\* lines 93-98: COMMIT, then the 201 response; the finally block releases
DepositCommit(p) ==
    /\ pc[p] = "commit"
    /\ \E f \in MayFault :
        IF f
        THEN Throw(p, TRUE) /\ UNCHANGED <<tx, resp, accounts, transactions>>
        ELSE /\ transactions' = CommittedTransactions(tx[p])
             /\ accounts' = CommittedAccounts(tx[p])
             /\ tx' = [tx EXCEPT ![p] = NoTx]
             /\ resp' = [resp EXCEPT ![p] =
                    [NoResp EXCEPT !.status = 201,
                                   !.transactionId = local[p].transactionId,
                                   !.newBalance = local[p].newBalance]]
             /\ local' = [local EXCEPT ![p].client = "released",
                                       ![p].txn = "ended"]
             /\ pc' = [pc EXCEPT ![p] = "done"]
             /\ faultsLeft' = faultsLeft
    /\ UNCHANGED <<users, nextAccountId, nextTxnId, clock, nextReq, req>>

\* the catch block issuing COMMIT in the place of ROLLBACK
DepositCatchCommits(p) ==
    /\ pc[p] = "catch"
    /\ transactions' = CommittedTransactions(tx[p])
    /\ accounts' = CommittedAccounts(tx[p])
    /\ tx' = [tx EXCEPT ![p] = NoTx]
    /\ resp' = [resp EXCEPT ![p] =
            ErrorResp(500, "INTERNAL_ERROR", "Failed to process deposit")]
    /\ local' = [local EXCEPT ![p].client = "released",
                              ![p].txn = IF @ = "open" THEN "ended" ELSE @]
    /\ pc' = [pc EXCEPT ![p] = "done"]
    /\ UNCHANGED <<users, nextAccountId, nextTxnId, clock, nextReq, faultsLeft, req>>

\* lines 99-110: the catch block's ROLLBACK, then the 500 response; a ROLLBACK
\* that throws leaves the handler (after the finally block), and the store
\* aborts the transaction of the broken connection
DepositCatch(p) ==
    /\ pc[p] = "catch"
    /\ \E f \in MayFault :
        IF f
        THEN /\ faultsLeft' = faultsLeft - 1
             /\ local' = [local EXCEPT ![p].fault = TRUE, ![p].client = "released"]
             /\ \E handled \in BOOLEAN : Escape(p, handled)
        ELSE /\ tx' = [tx EXCEPT ![p] = NoTx]
             /\ resp' = [resp EXCEPT ![p] =
                    ErrorResp(500, "INTERNAL_ERROR", "Failed to process deposit")]
             /\ local' = [local EXCEPT ![p].client = "released",
                                       ![p].txn = IF @ = "open" THEN "ended" ELSE @]
             /\ pc' = [pc EXCEPT ![p] = "done"]
             /\ faultsLeft' = faultsLeft
    /\ UNCHANGED <<dbVars, clock, nextReq, req>>

\* ----------------------------------------------------- GET /transactions
\* lines 14-52: the first failing check's message, "" when all pass
ValidateListing(q) ==
    LET pageNum == ParseInt(OrDefault(q.page, DefaultPage))
        limitNum == ParseInt(OrDefault(q.limit, DefaultLimit))
    IN  IF q.accountId = MissingId THEN "accountId is required"
        ELSE IF pageNum.nan \/ pageNum.val < 1 THEN "page must be a positive integer"
        ELSE IF limitNum.nan \/ limitNum.val < 1 THEN "limit must be a positive integer"
        ELSE IF limitNum.val > MaxLimit THEN "limit cannot exceed 100"
        ELSE ""

ListRequest(p, hdr, q) ==
    /\ pc[p] = "idle"
    /\ nextReq' = nextReq + 1
    /\ req' = [req EXCEPT ![p] =
            [NoReq EXCEPT !.op = "list", !.no = nextReq, !.auth = hdr,
                          !.accountId = q.accountId, !.page = q.page,
                          !.limit = q.limit]]
    /\ IF authMiddleware(hdr).status # 0
       THEN /\ resp' = [resp EXCEPT ![p] = authMiddleware(hdr)]
            /\ pc' = [pc EXCEPT ![p] = "done"]
            /\ local' = local
       ELSE IF ValidateListing(q) # ""
       THEN /\ resp' = [resp EXCEPT ![p] =
                    ErrorResp(400, "VALIDATION_ERROR", ValidateListing(q))]
            /\ pc' = [pc EXCEPT ![p] = "done"]
            /\ local' = [local EXCEPT ![p].userId = hdr.userId]
       ELSE /\ resp' = resp
            /\ pc' = [pc EXCEPT ![p] = "l_account"]
            /\ local' = [local EXCEPT
                    ![p].userId = hdr.userId,
                    ![p].pageNum = ParseInt(OrDefault(q.page, DefaultPage)).val,
                    ![p].limitNum = ParseInt(OrDefault(q.limit, DefaultLimit)).val]
    /\ UNCHANGED <<dbVars, clock, faultsLeft, tx>>

\* lines 108-115: the catch block of the listing
ListCatch(p, injected) ==
    /\ faultsLeft' = IF injected THEN faultsLeft - 1 ELSE faultsLeft
    /\ local' = [local EXCEPT ![p].fault = @ \/ injected]
    /\ resp' = [resp EXCEPT ![p] =
            ErrorResp(500, "INTERNAL_ERROR", "Failed to retrieve transactions")]
    /\ pc' = [pc EXCEPT ![p] = "done"]

\* lines 56-80: read the account row, then the existence and ownership checks
ListAccount(p) ==
    /\ pc[p] = "l_account"
    /\ \E f \in MayFault :
        IF f \/ UuidError(req[p].accountId)
        THEN ListCatch(p, f)
        ELSE LET row == SelectAccount(req[p].accountId) IN
             /\ local' = [local EXCEPT ![p].account = row]
             /\ faultsLeft' = faultsLeft
             /\ IF row = NoRow
                THEN /\ resp' = [resp EXCEPT ![p] =
                            ErrorResp(404, "NOT_FOUND", "Account not found")]
                     /\ pc' = [pc EXCEPT ![p] = "done"]
                ELSE IF ~Owns(row, local[p].userId)
                THEN /\ resp' = [resp EXCEPT ![p] =
                            ErrorResp(403, "FORBIDDEN",
                                      "You do not have access to this account")]
                     /\ pc' = [pc EXCEPT ![p] = "done"]
                ELSE /\ resp' = resp
                     /\ pc' = [pc EXCEPT ![p] = "l_count"]
    /\ UNCHANGED <<dbVars, clock, nextReq, req, tx>>

\* the WHERE account_id = $1 left out
EntriesOfEveryAccount(id) == transactions

\* the committed entries of an account
EntriesOf(id) == {e \in transactions : e.account_id = id}

\* lines 83-87: SELECT COUNT(*) FROM transactions WHERE account_id = $1
ListCount(p) ==
    /\ pc[p] = "l_count"
    /\ \E f \in MayFault :
        IF f
        THEN ListCatch(p, TRUE)
        ELSE /\ local' = [local EXCEPT
                    ![p].total = Cardinality(EntriesOf(req[p].accountId))]
             /\ pc' = [pc EXCEPT ![p] = "l_page"]
             /\ UNCHANGED <<faultsLeft, resp>>
    /\ UNCHANGED <<dbVars, clock, nextReq, req, tx>>

\* ORDER BY created_at DESC: every arrangement of the rows with no row before
\* a newer one; rows of equal created_at come in an order the store chooses
OrderByCreatedAtDesc(S) ==
    {s \in [1..Cardinality(S) -> S] :
        /\ \A i, j \in 1..Cardinality(S) : i # j => s[i] # s[j]
        /\ \A i, j \in 1..Cardinality(S) :
              i < j => s[i].created_at >= s[j].created_at}

Min(a, b) == IF a <= b THEN a ELSE b

\* LIMIT $2 OFFSET $3 of an ordered result
LimitOffset(s, limit, offset) ==
    [i \in 1..(IF Len(s) > offset THEN Min(limit, Len(s) - offset) ELSE 0)
        |-> s[offset + i]]

\* the six selected columns of a row
ItemOf(e) == [id |-> e.id, account_id |-> e.account_id, type |-> e.type,
              amount |-> e.amount, reference |-> e.reference,
              created_at |-> e.created_at]

\* binding an OFFSET parameter above the bigint range raises "value ... is
\* out of range for type bigint"; with 1 <= limit <= 100 the offset
\* (page - 1) * limit is above the range when the page is
BigintError(pageNum, limitNum) == pageNum = AboveBigint

\* lines 90-107: the page query and the 200 response
ListPage(p) ==
    /\ pc[p] = "l_page"
    /\ \E f \in MayFault :
        IF f \/ BigintError(local[p].pageNum, local[p].limitNum)
        THEN ListCatch(p, f)
        ELSE \E s \in OrderByCreatedAtDesc(EntriesOf(req[p].accountId)) :
             LET offset == (local[p].pageNum - 1) * local[p].limitNum
                 rows == LimitOffset(s, local[p].limitNum, offset)
             IN  /\ resp' = [resp EXCEPT ![p] =
                        [NoResp EXCEPT
                            !.status = 200,
                            !.items = [i \in 1..Len(rows) |-> ItemOf(rows[i])],
                            !.page = local[p].pageNum,
                            !.limit = local[p].limitNum,
                            !.total = local[p].total]]
                 /\ pc' = [pc EXCEPT ![p] = "done"]
                 /\ UNCHANGED <<faultsLeft, local>>
    /\ UNCHANGED <<dbVars, clock, nextReq, req, tx>>

\* ------------------------------------------------------------- /accounts
Currencies == {"EUR", "USD"}

\* the check against the list of currencies left out
ValidateAccountAnyCurrency(currency) ==
    IF currency = "" THEN "Currency is required" ELSE ""

\* POST /accounts, lines 15-31: the first failing check's message
ValidateAccount(currency) ==
    IF currency = "" THEN "Currency is required"
    ELSE IF currency \notin Currencies THEN "Currency must be EUR or USD"
    ELSE ""

CreateAccountRequest(p, hdr, currency) ==
    /\ pc[p] = "idle"
    /\ nextAccountId + Cardinality({q \in Procs : pc[q] = "a_insert"}) <= MaxAccounts
    /\ nextReq' = nextReq + 1
    /\ req' = [req EXCEPT ![p] =
            [NoReq EXCEPT !.op = "create", !.no = nextReq, !.auth = hdr,
                          !.currency = currency]]
    /\ IF authMiddleware(hdr).status # 0
       THEN /\ resp' = [resp EXCEPT ![p] = authMiddleware(hdr)]
            /\ pc' = [pc EXCEPT ![p] = "done"]
            /\ local' = local
       ELSE IF ValidateAccount(currency) # ""
       THEN /\ resp' = [resp EXCEPT ![p] =
                    ErrorResp(400, "VALIDATION_ERROR", ValidateAccount(currency))]
            /\ pc' = [pc EXCEPT ![p] = "done"]
            /\ local' = [local EXCEPT ![p].userId = hdr.userId]
       ELSE /\ resp' = resp
            /\ pc' = [pc EXCEPT ![p] = "a_insert"]
            /\ local' = [local EXCEPT ![p].userId = hdr.userId]
    /\ UNCHANGED <<dbVars, clock, faultsLeft, tx>>

\* the catch blocks of the two account handlers
AccountCatch(p, injected) ==
    /\ faultsLeft' = IF injected THEN faultsLeft - 1 ELSE faultsLeft
    /\ local' = [local EXCEPT ![p].fault = @ \/ injected]
    /\ resp' = [resp EXCEPT ![p] =
            ErrorResp(500, "INTERNAL_ERROR", "An unexpected error occurred")]
    /\ pc' = [pc EXCEPT ![p] = "done"]

\* the store's checks on a new accounts row: the foreign key to users and
\* CHECK (currency IN ('EUR', 'USD'))
AccountAccepted(userId, currency) ==
    /\ userId \in users
    /\ currency \in {"EUR", "USD"}

\* POST /accounts, lines 34-47: INSERT INTO accounts ... VALUES ($1, $2, 0)
CreateAccountInsert(p) ==
    /\ pc[p] = "a_insert"
    /\ \E f \in MayFault :
        IF f \/ ~AccountAccepted(local[p].userId, req[p].currency)
        THEN AccountCatch(p, f) /\ UNCHANGED <<accounts, nextAccountId>>
        ELSE /\ accounts' = [id \in DOMAIN accounts \cup {nextAccountId} |->
                    IF id = nextAccountId
                    THEN [user_id |-> local[p].userId,
                          currency |-> req[p].currency,
                          balance |-> 0, xmin |-> req[p].no]
                    ELSE accounts[id]]
             /\ nextAccountId' = nextAccountId + 1
             /\ resp' = [resp EXCEPT ![p] =
                    [NoResp EXCEPT !.status = 201, !.id = nextAccountId,
                                   !.currency = req[p].currency,
                                   !.balance = ToFixed2(ParseFloat(0))]]
             /\ pc' = [pc EXCEPT ![p] = "done"]
             /\ UNCHANGED <<faultsLeft, local>>
    /\ UNCHANGED <<users, transactions, nextTxnId, clock, nextReq, req, tx>>

GetAccountRequest(p, hdr, id) ==
    /\ pc[p] = "idle"
    /\ nextReq' = nextReq + 1
    /\ req' = [req EXCEPT ![p] =
            [NoReq EXCEPT !.op = "get", !.no = nextReq, !.auth = hdr,
                          !.accountId = id]]
    /\ IF authMiddleware(hdr).status # 0
       THEN /\ resp' = [resp EXCEPT ![p] = authMiddleware(hdr)]
            /\ pc' = [pc EXCEPT ![p] = "done"]
            /\ local' = local
       ELSE /\ resp' = resp
            /\ pc' = [pc EXCEPT ![p] = "g_select"]
            /\ local' = [local EXCEPT ![p].userId = hdr.userId]
    /\ UNCHANGED <<dbVars, clock, faultsLeft, tx>>

\* the ownership test made after the row is read, as the deposit handler
\* makes it: another user's account is answered 403
GetAccountSelectForbidden(p) ==
    /\ pc[p] = "g_select"
    /\ ~UuidError(req[p].accountId)
    /\ LET row == SelectAccount(req[p].accountId) IN
         /\ local' = [local EXCEPT ![p].account = row]
         /\ resp' = [resp EXCEPT ![p] =
                IF row = NoRow
                THEN ErrorResp(404, "NOT_FOUND", "Account not found")
                ELSE IF row.user_id # local[p].userId
                THEN ErrorResp(403, "FORBIDDEN",
                               "You do not have access to this account")
                ELSE [NoResp EXCEPT !.status = 200, !.id = row.id,
                                    !.currency = row.currency,
                                    !.balance = ToFixed2(ParseFloat(row.balance))]]
         /\ pc' = [pc EXCEPT ![p] = "done"]
    /\ UNCHANGED <<dbVars, clock, nextReq, faultsLeft, req, tx>>

\* GET /accounts/:id, lines 64-84: SELECT ... WHERE id = $1 AND user_id = $2
GetAccountSelect(p) ==
    /\ pc[p] = "g_select"
    /\ \E f \in MayFault :
        IF f \/ UuidError(req[p].accountId)
        THEN AccountCatch(p, f)
        ELSE LET row == SelectAccount(req[p].accountId) IN
             /\ local' = [local EXCEPT ![p].account = row]
             /\ faultsLeft' = faultsLeft
             /\ resp' = [resp EXCEPT ![p] =
                    IF row = NoRow \/ row.user_id # local[p].userId
                    THEN ErrorResp(404, "NOT_FOUND", "Account not found")
                    ELSE [NoResp EXCEPT !.status = 200, !.id = row.id,
                                        !.currency = row.currency,
                                        !.balance = ToFixed2(ParseFloat(row.balance))]]
             /\ pc' = [pc EXCEPT ![p] = "done"]
    /\ UNCHANGED <<dbVars, clock, nextReq, req, tx>>

\* -------------------------------------------------------------- GET /me
MeRequest(p, hdr) ==
    /\ pc[p] = "idle"
    /\ nextReq' = nextReq + 1
    /\ req' = [req EXCEPT ![p] =
            [NoReq EXCEPT !.op = "me", !.no = nextReq, !.auth = hdr]]
    /\ IF authMiddleware(hdr).status # 0
       THEN /\ resp' = [resp EXCEPT ![p] = authMiddleware(hdr)]
            /\ pc' = [pc EXCEPT ![p] = "done"]
            /\ local' = local
       ELSE /\ resp' = resp
            /\ pc' = [pc EXCEPT ![p] = "m_select"]
            /\ local' = [local EXCEPT ![p].userId = hdr.userId]
    /\ UNCHANGED <<dbVars, clock, faultsLeft, tx>>

\* the e-mail address of a seeded user
EmailOf(u) == IF u = "u1" THEN "demo@qa.com" ELSE "second-demo@qa.com"

\* lines 31-58: SELECT id, email FROM users WHERE id = $1
MeSelect(p) ==
    /\ pc[p] = "m_select"
    /\ \E f \in MayFault :
        IF f
        THEN AccountCatch(p, TRUE)
        ELSE /\ resp' = [resp EXCEPT ![p] =
                    IF local[p].userId \notin users
                    THEN ErrorResp(404, "NOT_FOUND", "User not found")
                    ELSE [NoResp EXCEPT !.status = 200,
                                        !.email = EmailOf(local[p].userId)]]
             /\ pc' = [pc EXCEPT ![p] = "done"]
             /\ UNCHANGED <<faultsLeft, local>>
    /\ UNCHANGED <<dbVars, clock, nextReq, req, tx>>

\* ------------------------------------------------- express.json(), errors
\* a request whose JSON body does not parse: express.json(), the first
\* middleware of the app, passes the error on and the app's error handler
\* answers; no router and no authMiddleware is reached
expressJsonError(p, path, hdr) ==
    /\ pc[p] = "idle"
    /\ nextReq' = nextReq + 1
    /\ req' = [req EXCEPT ![p] =
            [NoReq EXCEPT !.op = "json", !.no = nextReq, !.auth = hdr,
                          !.path = path]]
    /\ resp' = [resp EXCEPT ![p] =
            ErrorResp(500, "INTERNAL_ERROR", "An unexpected error occurred")]
    /\ pc' = [pc EXCEPT ![p] = "done"]
    /\ UNCHANGED <<dbVars, clock, faultsLeft, local, tx>>

\* ------------------------------------------------------------ environment
\* the store's clock advances
Tick ==
    /\ clock < MaxClock
    /\ clock' = clock + 1
    /\ UNCHANGED <<dbVars, nextReq, faultsLeft, pc, req, local, tx, resp>>

\* the caller has its answer (or has given up on a request never answered);
\* the handler slot serves the next request
Finish(p) ==
    /\ pc[p] \in {"done", "hung"}
    /\ pc' = [pc EXCEPT ![p] = "idle"]
    /\ req' = [req EXCEPT ![p] = NoReq]
    /\ local' = [local EXCEPT ![p] = NoLocal]
    /\ resp' = [resp EXCEPT ![p] = NoResp]
    /\ UNCHANGED <<dbVars, clock, nextReq, faultsLeft, tx>>

\* ------------------------------------------------------------ the inputs
\* callers with a valid token: u1 is the user who opens accounts, u2 the
\* other user
Owner == Bearer("u1", TRUE)
Other == Bearer("u2", TRUE)

AccountIdInputs == {MissingId, MalformedId, UnknownId} \cup (1..MaxAccounts)

\* amounts in mills: "abc", -5, 0, 0.004, 0.005, 0.01, 0.02
AmountInputs == {String(0), Number(-5000), Number(0), Number(4), Number(5),
                 Number(10), Number(20)}

DepositBody(a, m, r) == [accountId |-> a, amount |-> m, reference |-> r]

\* callers without a valid token: no Authorization header, and a token that
\* has expired or does not verify
Unauthenticated == {NoHeader, Bearer("u1", FALSE)}

\* by the owner: every accountId with every amount, and one with a reference;
\* by the other user: every amount on the first account, every accountId;
\* without a valid token: a deposit to the first account, one that names none
DepositRequests ==
    {<<h, DepositBody(a, Number(10), "")>> : h \in Unauthenticated, a \in {MissingId, 1}}
    \cup
    {<<Owner, DepositBody(a, m, "")>> : a \in AccountIdInputs, m \in AmountInputs}
    \cup {<<Owner, DepositBody(1, Number(10), "ref")>>}
    \cup {<<Other, DepositBody(1, m, "")>> : m \in AmountInputs}
    \cup {<<Other, DepositBody(a, Number(10), "")>> : a \in AccountIdInputs}

\* the deposits that matter to interleavings: stored accounts, stored amounts
ConcurrentDepositRequests ==
    {<<Owner, DepositBody(a, m, "")>> : a \in 1..MaxAccounts,
                                        m \in {Number(10), Number(20)}}
    \cup {<<Other, DepositBody(1, Number(10), "")>>}

ListQuery(a, pg, lim) == [accountId |-> a, page |-> pg, limit |-> lim]

\* page and limit strings that are not positive integers: "-1", "x", "1.5",
\* "0", "2x"
BadPageInputs == {Str(<<"-", "1">>), Str(<<"x">>), Str(<<"1", ".", "5">>)}
LimitEdgeInputs == {Str(<<"0">>), Str(<<"1", "0", "0">>), Str(<<"1", "0", "1">>),
                    Str(<<"2", "x">>)}

\* every accountId with the defaults, by both users; on the first account
\* pages and limits around the edges; bad pages and limits with a missing, an
\* unknown and an existing accountId; a bad page on another user's account
ListRequests ==
    {<<h, ListQuery(a, Absent, Absent)>> : h \in {Owner, Other}, a \in AccountIdInputs}
    \cup {<<h, ListQuery(a, Absent, Absent)>> : h \in Unauthenticated, a \in {MissingId, 1}}
    \cup {<<Owner, ListQuery(1, pg, lim)>> :
            pg \in {Absent, Str(<<"2">>), Str(<<"0">>)},
            lim \in {Absent, Str(<<"1">>), Str(<<"1", "0", "1">>)}}
    \cup {<<Owner, ListQuery(a, pg, Absent)>> :
            a \in {MissingId, UnknownId, 1}, pg \in BadPageInputs}
    \cup {<<Owner, ListQuery(a, Absent, lim)>> :
            a \in {UnknownId, 1}, lim \in LimitEdgeInputs}
    \cup {<<Other, ListQuery(1, Str(<<"0">>), Absent)>>}

ConcurrentListRequests ==
    {<<Owner, ListQuery(a, Absent, lim)>> : a \in 1..MaxAccounts,
                                           lim \in {Absent, Str(<<"1">>)}}
    \cup {<<Other, ListQuery(1, Absent, Absent)>>}

CurrencyInputs == {"", "EUR", "USD", "GBP"}

CreateRequests ==
    {<<Owner, c>> : c \in CurrencyInputs} \cup {<<NoHeader, "EUR">>}
    \cup {<<Bearer("u1", FALSE), "">>}

ConcurrentCreateRequests == {<<Owner, "EUR">>, <<NoHeader, "EUR">>}

GetRequests ==
    {<<Owner, a>> : a \in AccountIdInputs \ {MissingId}}
    \cup {<<Other, 1>>, <<Other, UnknownId>>}
    \cup {<<h, 1>> : h \in Unauthenticated}

MeRequests == {Owner} \cup Unauthenticated

\* POST requests with a body that is not JSON, with and without a token
MalformedBodyRequests ==
    {<<path, h>> : path \in {"/deposits", "/accounts"}, h \in {Owner, NoHeader}}

ConcurrentGetRequests == {<<Owner, a>> : a \in 1..MaxAccounts} \cup {<<Other, 1>>}

\* the handler slots are interchangeable: a request is taken by the first
\* idle one
Takes(p) == pc[p] = "idle" /\ \A q \in Procs : q < p => pc[q] # "idle"

\* a request arrives while the run's budget of requests lasts
Arrives(p) == Takes(p) /\ nextReq <= MaxRequests

\* ------------------------------------------------------------------ Next
Step(p) ==
    \/ DepositConnect(p)
    \/ DepositBegin(p)
    \/ DepositSelect(p)
    \/ DepositReject(p)
    \/ DepositInsert(p)
    \/ DepositUpdate(p)
    \/ DepositCommit(p)
    \/ DepositCatch(p)
    \/ ListAccount(p)
    \/ ListCount(p)
    \/ ListPage(p)
    \/ CreateAccountInsert(p)
    \/ GetAccountSelect(p)
    \/ Finish(p)

\* requests are served concurrently by the handler slots, and store calls
\* may fail
Next ==
    \/ \E p \in Procs :
        \/ \E r \in ConcurrentDepositRequests : Arrives(p) /\ DepositRequest(p, r[1], r[2])
        \/ \E r \in ConcurrentListRequests : Arrives(p) /\ ListRequest(p, r[1], r[2])
        \/ \E r \in ConcurrentCreateRequests :
              Arrives(p) /\ CreateAccountRequest(p, r[1], r[2])
        \/ \E r \in ConcurrentGetRequests : Arrives(p) /\ GetAccountRequest(p, r[1], r[2])
        \/ Step(p)
    \/ Tick

Spec == Init /\ [][Next]_vars

\* one request at a time against a store that does not fail: a request
\* arrives only when no other is in flight
Quiet == \A q \in Procs : ~InFlight(q)

InitSeq == InitWith(0)

NextSeq ==
    \E p \in Procs :
        \/ \E r \in DepositRequests :
              Quiet /\ Arrives(p) /\ DepositRequest(p, r[1], r[2])
        \/ \E r \in ListRequests : Quiet /\ Arrives(p) /\ ListRequest(p, r[1], r[2])
        \/ \E r \in CreateRequests :
              Quiet /\ Arrives(p) /\ CreateAccountRequest(p, r[1], r[2])
        \/ \E r \in GetRequests : Quiet /\ Arrives(p) /\ GetAccountRequest(p, r[1], r[2])
        \/ \E h \in MeRequests : Quiet /\ Arrives(p) /\ MeRequest(p, h)
        \/ \E r \in MalformedBodyRequests :
              Quiet /\ Arrives(p) /\ expressJsonError(p, r[1], r[2])
        \/ MeSelect(p)
        \/ Step(p)

SeqSpec == InitSeq /\ [][NextSeq]_vars

\* ------------------------------------------------- deposits, then listings
\* the store after POST /accounts has opened the accounts (before the
\* requests counted here): the first is u1's, the others are all u1's or all
\* u2's; no entry yet
InitList ==
    /\ users = Users
    /\ \E o \in Users :
          accounts = [id \in 1..MaxAccounts |->
                        [user_id |-> IF id = 1 THEN "u1" ELSE o,
                         currency |-> "EUR", balance |-> 0, xmin |-> 0]]
    /\ transactions = {}
    /\ nextAccountId = MaxAccounts + 1
    /\ nextTxnId = 1
    /\ clock = 0
    /\ nextReq = 1
    /\ faultsLeft = 0
    /\ pc = [p \in Procs |-> "idle"]
    /\ req = [p \in Procs |-> NoReq]
    /\ local = [p \in Procs |-> NoLocal]
    /\ tx = [p \in Procs |-> NoTx]
    /\ resp = [p \in Procs |-> NoResp]

\* deposits of 0.10 by the first user to every account and by the other user
\* to the second
PagedDepositRequests ==
    {<<Owner, DepositBody(a, Number(100), "")>> : a \in 1..MaxAccounts}
    \cup {<<Other, DepositBody(2, Number(100), "")>>}

\* the page 10000000000000000000
TenToThe19 == Str([i \in 1..BigintDigits |-> IF i = 1 THEN "1" ELSE "0"])

\* listings of the first account with pages 1..3 and limits 1, 2 and 20,
\* given or left out; of a page far beyond the last, with and without
\* limit; one of the second account
PagedListRequests ==
    {<<Owner, ListQuery(1, pg, lim)>> :
        pg \in {Absent, Str(<<"1">>), Str(<<"2">>), Str(<<"3">>)},
        lim \in {Absent, Str(<<"1">>), Str(<<"2">>), Str(<<"2", "0">>)}}
    \cup {<<Owner, ListQuery(1, TenToThe19, lim)>> : lim \in {Absent, Str(<<"2", "0">>)}}
    \cup {<<Owner, ListQuery(2, Absent, Absent)>>}

\* the answers of the latest requests are kept side by side: a slot is
\* cleared for the next request only when none is idle, the oldest first
FinishOldest(p) ==
    /\ \A q \in Procs : pc[q] # "idle" /\ req[q].no >= req[p].no
    /\ Finish(p)

ListStep(p) ==
    \/ DepositConnect(p)
    \/ DepositBegin(p)
    \/ DepositSelect(p)
    \/ DepositReject(p)
    \/ DepositInsert(p)
    \/ DepositUpdate(p)
    \/ DepositCommit(p)
    \/ ListAccount(p)
    \/ ListCount(p)
    \/ ListPage(p)
    \/ FinishOldest(p)

\* one request at a time, the store does not fail, the clock may or may not
\* advance between two store calls
NextList ==
    \/ \E p \in Procs :
        \/ \E r \in PagedDepositRequests :
              /\ Quiet /\ Takes(p) /\ nextReq <= MaxListRequests
              /\ DepositRequest(p, r[1], r[2])
        \/ \E r \in PagedListRequests :
              /\ Quiet /\ Takes(p) /\ nextReq <= MaxListRequests
              /\ ListRequest(p, r[1], r[2])
        \/ ListStep(p)
    \/ Tick

ListSpec == InitList /\ [][NextList]_vars

\* ---------------------------------------------------------------- claims
RECURSIVE SumAmounts(_)
\* ------------------------------------------------------ the cleanup helper
\* a DELETE that does not wait for the locks of open transactions
NeverLocked(a) == FALSE

\* an open transaction holds a lock on the account row: the key-share lock
\* taken by the foreign-key check of its INSERT, or the lock of its UPDATE; a
\* DELETE of the row waits for it
AccountLocked(a) ==
    \E p \in Procs :
        \/ tx[p].entry # NoEntry /\ tx[p].entry.account_id = a
        \/ tx[p].balSet /\ tx[p].balAccount = a

\* ON DELETE CASCADE of transactions.account_id: the entries that remain when
\* the accounts A remain
CascadeTransactions(A) == {e \in transactions : e.account_id \in A}

\* dbCleanup.deleteAccount: DELETE FROM accounts WHERE id = $1
deleteAccount(accountId) ==
    /\ ~AccountLocked(accountId)
    /\ accounts' = [a \in DOMAIN accounts \ {accountId} |-> accounts[a]]
    /\ transactions' = CascadeTransactions(DOMAIN accounts \ {accountId})
    /\ UNCHANGED <<users, nextAccountId, nextTxnId, clock, nextReq, faultsLeft,
                   pc, req, local, tx, resp>>

\* dbCleanup.deleteUser: DELETE FROM users WHERE id = $1, cascading to the
\* user's accounts and their entries
deleteUser(userId) ==
    LET kept == {a \in DOMAIN accounts : accounts[a].user_id # userId} IN
    /\ \A a \in DOMAIN accounts \ kept : ~AccountLocked(a)
    /\ users' = users \ {userId}
    /\ accounts' = [a \in kept |-> accounts[a]]
    /\ transactions' = CascadeTransactions(kept)
    /\ UNCHANGED <<nextAccountId, nextTxnId, clock, nextReq, faultsLeft,
                   pc, req, local, tx, resp>>

\* dbCleanup.deleteTransactions: DELETE FROM transactions WHERE account_id =
\* $1; rows of open transactions are not visible to it
deleteTransactions(accountId) ==
    /\ transactions' = {e \in transactions : e.account_id # accountId}
    /\ UNCHANGED <<users, accounts, nextAccountId, nextTxnId, clock, nextReq,
                   faultsLeft, pc, req, local, tx, resp>>

\* dbCleanup.deleteAllData: TRUNCATE users, accounts, transactions CASCADE; it
\* waits for every open transaction that has used one of the tables
deleteAllData ==
    /\ \A p \in Procs : tx[p].xid = 0 \/ pc[p] = "select"
    /\ users' = {}
    /\ accounts' = [a \in {} |-> NoRow]
    /\ transactions' = {}
    /\ UNCHANGED <<nextAccountId, nextTxnId, clock, nextReq, faultsLeft,
                   pc, req, local, tx, resp>>

\* ------------------------------------------ deposits racing with cleanup
MaxCleanupRequests == 3

InitCleanup == InitWith(0)

\* deposits of 0.10 to every account by the first user
CleanupDepositRequests ==
    {<<Owner, DepositBody(a, Number(100), "")>> : a \in 1..MaxAccounts}

CleanupCreateRequests == {<<h, "EUR">> : h \in {Owner, Other}}

CleanupStep(p) ==
    \/ DepositConnect(p)
    \/ DepositBegin(p)
    \/ DepositSelect(p)
    \/ DepositReject(p)
    \/ DepositInsert(p)
    \/ DepositUpdate(p)
    \/ DepositCommit(p)
    \/ DepositCatch(p)
    \/ CreateAccountInsert(p)
    \/ Finish(p)

\* accounts are opened and deposits are served concurrently while the
\* cleanup helper deletes users, accounts and entries
NextCleanup ==
    \/ \E p \in Procs :
        \/ \E r \in CleanupDepositRequests :
              /\ Takes(p) /\ nextReq <= MaxCleanupRequests
              /\ DepositRequest(p, r[1], r[2])
        \/ \E r \in CleanupCreateRequests :
              /\ Takes(p) /\ nextReq <= MaxCleanupRequests
              /\ CreateAccountRequest(p, r[1], r[2])
        \/ CleanupStep(p)
    \/ \E a \in 1..MaxAccounts : deleteAccount(a)
    \/ \E u \in Users : deleteUser(u)
    \/ \E a \in 1..MaxAccounts : deleteTransactions(a)
    \/ deleteAllData

CleanupSpec == InitCleanup /\ [][NextCleanup]_vars

SumAmounts(S) ==
    IF S = {} THEN 0
    ELSE LET e == CHOOSE x \in S : TRUE IN e.amount + SumAmounts(S \ {e})

\* request number n has left a row in the committed tables
Wrote(n) ==
    \/ \E e \in transactions : e.xmin = n
    \/ \E a \in DOMAIN accounts : accounts[a].xmin = n

\* handler slot p holds an answered deposit request of an authenticated caller
DepositDone(p) ==
    /\ pc[p] = "done"
    /\ req[p].op = "deposit"
    /\ authMiddleware(req[p].auth).status = 0

\* no request has arrived after the one in slot p
Latest(p) == req[p].no = nextReq - 1

\* C1: in every committed state each account's balance equals the sum of the
\* amounts of its ledger entries (0 for an account with no entries).
C1_BalanceIsLedgerSum ==
    \A a \in DOMAIN accounts : accounts[a].balance = SumAmounts(EntriesOf(a))

\* C2: when two deposits to the same account have both been answered 201 and
\* the account's ledger holds exactly their two entries (so the balance was 0
\* before them and nobody else deposited), the balance is the sum of both
\* amounts: neither increase is overwritten by the other.
C2_NoLostUpdate ==
    \A p, q \in Procs :
        ( /\ p # q
          /\ DepositDone(p) /\ DepositDone(q)
          /\ resp[p].status = 201 /\ resp[q].status = 201
          /\ req[p].accountId = req[q].accountId
          /\ {e.id : e \in EntriesOf(req[p].accountId)}
                = {resp[p].transactionId, resp[q].transactionId} )
        => accounts[req[p].accountId].balance
              = ToNumeric2(req[p].amount.val) + ToNumeric2(req[q].amount.val)

\* C3: a deposit that failed after BEGIN (its handler went through the catch
\* block and released its client without a 201, 404 or 403) has left no row
\* in the committed tables and its caller has been answered 500
\* INTERNAL_ERROR.
C3_FailedDepositRolledBackAnd500 ==
    \A p \in Procs :
        ( /\ req[p].op = "deposit"
          /\ pc[p] \in {"done", "hung"}
          /\ local[p].client = "released"
          /\ resp[p].status \notin {201, 403, 404} )
        => /\ ~Wrote(req[p].no)
           /\ resp[p].status = 500
           /\ resp[p].code = "INTERNAL_ERROR"

\* the rows transaction x has written are visible in the committed tables
EntryVisibleIn(T, x) == \E e \in T : e.xmin = x
BalanceVisibleIn(A, x) == \E a \in DOMAIN A : A[a].xmin = x

\* while a deposit's transaction is open none of its writes is in the
\* committed tables, which are all that any query of a reader sees
OpenWritesInvisible ==
    \A p \in Procs :
        tx[p].xid # 0 =>
            /\ ~EntryVisibleIn(transactions, tx[p].xid)
            /\ ~BalanceVisibleIn(accounts, tx[p].xid)

\* in one step the entry of an open transaction becomes visible exactly when
\* its balance update does
VisibleTogether ==
    \A p \in Procs :
        tx[p].xid # 0 =>
            (EntryVisibleIn(transactions', tx[p].xid)
                <=> BalanceVisibleIn(accounts', tx[p].xid))

\* C4: no committed state, and so no query of a listing or of an account read,
\* shows a deposit's ledger entry without its balance update or the update
\* without the entry, also while deposits to the account are in progress:
\* both stay invisible while the transaction is open and both become visible
\* in the same step.
C4_NoPartialDepositVisible == []OpenWritesInvisible /\ [][VisibleTogether]_vars

\* a reader was answered about an account while a later-committing deposit to
\* it had its entry and its balance update pending, and saw neither
C4_Witness ==
    \E p, q \in Procs :
        /\ pc[p] = "commit" /\ tx[p].entry # NoEntry /\ tx[p].balSet
        /\ pc[q] = "done" /\ resp[q].status = 200
        /\ req[q].op \in {"list", "get"}
        /\ req[q].accountId = req[p].accountId
        /\ req[q].no > req[p].no
        /\ req[q].op = "list" => resp[q].total = 0
        /\ req[q].op = "get" => resp[q].balance = 0

\* the committed entries written by request number n
EntriesBy(n) == {e \in transactions : e.xmin = n}

\* the deposit in slot p is by the owner of an existing account with a
\* numeric amount > 0
ValidOwnerDeposit(p) ==
    /\ DepositDone(p)
    /\ req[p].amount.type = "number" /\ req[p].amount.val > 0
    /\ req[p].accountId \in DOMAIN accounts
    /\ accounts[req[p].accountId].user_id = req[p].auth.userId

\* C5: a deposit by the owner of an existing account with a numeric amount
\* > 0, alone on the account, is answered 201 with the entry's id and
\* newBalance = previous balance + amount, has inserted exactly one entry
\* (type deposit, that account, that amount, that reference or null) and has
\* set the stored balance to exactly previous balance + amount.
C5_DepositAddsExactlyAmount ==
    \A p \in Procs :
        (ValidOwnerDeposit(p) /\ Latest(p)) =>
            /\ resp[p].status = 201
            /\ resp[p].newBalance
                  = ParseFloat(local[p].account.balance) + req[p].amount.val
            /\ Cardinality(EntriesBy(req[p].no)) = 1
            /\ \A e \in EntriesBy(req[p].no) :
                  /\ e.id = resp[p].transactionId
                  /\ e.type = "deposit"
                  /\ e.account_id = req[p].accountId
                  /\ ParseFloat(e.amount) = req[p].amount.val
                  /\ e.reference = OrNull(req[p].reference)
            /\ ParseFloat(accounts[req[p].accountId].balance)
                  = ParseFloat(local[p].account.balance) + req[p].amount.val

\* C6: the same valid deposit request issued twice in sequence (slot q's
\* request is the one right after slot p's, and nothing came later) has
\* created two entries with distinct ids, one per request, and has raised the
\* balance by 2 * amount.
C6_TwiceIsTwoEntriesAndTwiceTheAmount ==
    \A p, q \in Procs :
        ( /\ DepositDone(p) /\ DepositDone(q)
          /\ resp[p].status = 201 /\ resp[q].status = 201
          /\ req[q].no = req[p].no + 1 /\ Latest(q)
          /\ req[q].auth = req[p].auth
          /\ req[q].accountId = req[p].accountId
          /\ req[q].amount = req[p].amount
          /\ req[q].reference = req[p].reference )
        => /\ resp[p].transactionId # resp[q].transactionId
           /\ {e.id : e \in EntriesBy(req[p].no)} = {resp[p].transactionId}
           /\ {e.id : e \in EntriesBy(req[q].no)} = {resp[q].transactionId}
           /\ ParseFloat(accounts[req[p].accountId].balance)
                 = ParseFloat(local[p].account.balance) + 2 * req[p].amount.val

IsError(r, status, code, message) ==
    r.status = status /\ r.code = code /\ r.message = message

\* the account named by the deposit or listing in slot p, as the handler's
\* lookup found it
NamesNoAccount(p) == req[p].accountId \notin DOMAIN accounts
NamesForeignAccount(p) ==
    /\ req[p].accountId \in DOMAIN accounts
    /\ accounts[req[p].accountId].user_id # req[p].auth.userId

\* C7 as stated: the deposit checks run in the order amount is numeric,
\* amount > 0, account exists, caller owns it, and the first failing one
\* decides the answer, whatever the accountId is.  (The lookup is judged for
\* UUID-shaped accountIds only.)
C7_Original_AmountChecksFirst ==
    \A p \in Procs :
        (DepositDone(p) /\ Latest(p)) =>
            IF req[p].amount.type # "number"
            THEN IsError(resp[p], 400, "VALIDATION_ERROR", "amount must be a number")
            ELSE IF req[p].amount.val <= 0
            THEN IsError(resp[p], 400, "VALIDATION_ERROR",
                         "amount must be greater than 0")
            ELSE IF req[p].accountId = MalformedId THEN TRUE
            ELSE IF NamesNoAccount(p)
            THEN IsError(resp[p], 404, "NOT_FOUND", "Account not found")
            ELSE IF NamesForeignAccount(p)
            THEN IsError(resp[p], 403, "FORBIDDEN",
                         "You do not have access to this account")
            ELSE TRUE

\* C7 as amended: the order is accountId present, amount is numeric,
\* amount > 0, account exists, caller owns it, and the first failing check
\* decides the answer.  (The lookup is judged for UUID-shaped accountIds only.)
C7_DepositCheckOrder ==
    \A p \in Procs :
        (DepositDone(p) /\ Latest(p)) =>
            IF req[p].accountId = MissingId
            THEN IsError(resp[p], 400, "VALIDATION_ERROR", "accountId is required")
            ELSE IF req[p].amount.type # "number"
            THEN IsError(resp[p], 400, "VALIDATION_ERROR", "amount must be a number")
            ELSE IF req[p].amount.val <= 0
            THEN IsError(resp[p], 400, "VALIDATION_ERROR",
                         "amount must be greater than 0")
            ELSE IF req[p].accountId = MalformedId THEN TRUE
            ELSE IF NamesNoAccount(p)
            THEN IsError(resp[p], 404, "NOT_FOUND", "Account not found")
            ELSE IF NamesForeignAccount(p)
            THEN IsError(resp[p], 403, "FORBIDDEN",
                         "You do not have access to this account")
            ELSE TRUE

\* a deposit of amount 0 to another user's account was answered by the amount
\* check, and one with a bad amount and no accountId by the accountId check
C7_Witness ==
    /\ \E p \in Procs :
          /\ DepositDone(p) /\ Latest(p)
          /\ NamesForeignAccount(p)
          /\ req[p].amount = Number(0)
          /\ resp[p].message = "amount must be greater than 0"
    /\ \E q \in Procs :
          /\ DepositDone(q)
          /\ req[q].accountId = MissingId
          /\ req[q].amount.type # "number"
          /\ resp[q].message = "accountId is required"

\* C8: a deposit request with no accountId is answered 400 VALIDATION_ERROR
\* 'accountId is required' whatever its amount, without a store call, and it
\* leaves no row in the committed tables.
C8_MissingAccountIdRejected ==
    \A p \in Procs :
        (DepositDone(p) /\ req[p].accountId = MissingId) =>
            /\ IsError(resp[p], 400, "VALIDATION_ERROR", "accountId is required")
            /\ local[p].client = "none"
            /\ ~Wrote(req[p].no)

\* a deposit with no accountId and an otherwise valid amount was rejected
\* while an account with a committed balance existed
C8_Witness ==
    \E p \in Procs :
        /\ DepositDone(p)
        /\ req[p].accountId = MissingId
        /\ req[p].amount = Number(10)
        /\ resp[p].status = 400
        /\ \E a \in DOMAIN accounts : accounts[a].balance > 0

\* handler slot p holds an answered deposit or listing request of an
\* authenticated caller, the latest request so far
GuardedDone(p) ==
    /\ pc[p] = "done"
    /\ req[p].op \in {"deposit", "list"}
    /\ authMiddleware(req[p].auth).status = 0
    /\ Latest(p)

\* the input checks of the request in slot p all pass
InputValid(p) ==
    IF req[p].op = "deposit"
    THEN ValidateDeposit(req[p]) = ""
    ELSE ValidateListing(req[p]) = ""

Forbidden(r) ==
    IsError(r, 403, "FORBIDDEN", "You do not have access to this account")

C10_UnknownAccountNotFound ==
    \A p \in Procs :
        (GuardedDone(p) /\ InputValid(p) /\ NamesNoAccount(p)) =>
            /\ IsError(resp[p], 404, "NOT_FOUND", "Account not found")
            /\ ~Wrote(req[p].no)

\* the deposit or listing in slot p was answered 400 VALIDATION_ERROR
ValidationRejected(i, r) ==
    i.op \in {"deposit", "list"} /\ r.status = 400 /\ r.code = "VALIDATION_ERROR"

\* a rejected request holds no trace of a store call: no pool client taken,
\* no account row read, no count made, no store fault met, no transaction
\* opened, no row written
NoStoreCall(p) ==
    /\ local[p].client = "none"
    /\ local[p].account = NoRow
    /\ local[p].total = -1
    /\ ~local[p].fault
    /\ tx[p] = NoTx
    /\ ~Wrote(req[p].no)

\* the answer is given in the very step in which the request arrives, and
\* that step leaves the tables as they are
RejectedOnArrival ==
    \A p \in Procs :
        (ValidationRejected(req'[p], resp'[p]) /\ ~ValidationRejected(req[p], resp[p]))
            => /\ pc[p] = "idle"
               /\ accounts' = accounts
               /\ transactions' = transactions
               /\ tx' = tx

\* C11: a deposit or listing answered VALIDATION_ERROR is answered before any
\* store operation: the answer comes in the step of the request's arrival,
\* no client is acquired, no query has run and no account or entry changes.
C11_ValidationBeforeStore ==
    /\ [](\A p \in Procs : ValidationRejected(req[p], resp[p]) => NoStoreCall(p))
    /\ [][RejectedOnArrival]_vars

\* a deposit with a bad amount and a listing with a bad limit, both naming an
\* existing account, were both rejected
C11_Witness ==
    \E p, q \in Procs :
        /\ ValidationRejected(req[p], resp[p]) /\ req[p].op = "deposit"
        /\ req[p].accountId \in DOMAIN accounts
        /\ req[q].accountId \in DOMAIN accounts
        /\ ValidationRejected(req[q], resp[q]) /\ req[q].op = "list"
        /\ resp[q].message = "limit cannot exceed 100"

\* the committed entries of account a, and the one with a given id
LedgerOf(a) == {e \in transactions : e.account_id = a}
EntryWithId(i) == CHOOSE e \in transactions : e.id = i

\* the page and the limit the listing in slot p asks for
PageAsked(p) == ParseInt(OrDefault(req[p].page, DefaultPage)).val
LimitAsked(p) == ParseInt(OrDefault(req[p].limit, DefaultLimit)).val

\* slot p holds the answer to the latest request, a listing with valid input
\* by the owner of the account it names: nothing was written since
OwnListingAnswered(p) ==
    /\ GuardedDone(p)
    /\ req[p].op = "list"
    /\ ValidateListing(req[p]) = ""
    /\ req[p].accountId \in DOMAIN accounts
    /\ accounts[req[p].accountId].user_id = req[p].auth.userId

\* the number of entries on page pg of n entries in pages of k
\* (pg - 1 >= n is asked first: the product is not formed for a far page)
PageLength(n, pg, k) ==
    IF pg - 1 >= n THEN 0
    ELSE IF (pg - 1) * k >= n THEN 0
    ELSE Min(k, n - (pg - 1) * k)

\* entry e can stand at place r of E sorted newest first: fewer than r
\* entries are newer, and at least r are as new or newer
CanBeAtRank(E, e, r) ==
    /\ Cardinality({x \in E : x.created_at > e.created_at}) < r
    /\ Cardinality({x \in E : x.created_at >= e.created_at}) >= r

\* the answer r is the window of page pg, k per page, of the entries E sorted
\* newest first, with the right total
IsWindow(r, E, pg, k) ==
    /\ r.status = 200
    /\ r.total = Cardinality(E)
    /\ Len(r.items) = PageLength(Cardinality(E), pg, k)
    /\ \A i \in 1..Len(r.items) :
          /\ \E e \in E : r.items[i] = ItemOf(e)
          /\ CanBeAtRank(E, EntryWithId(r.items[i].id), (pg - 1) * k + i)
    /\ \A i, j \in 1..Len(r.items) :
          i < j => /\ r.items[i].id # r.items[j].id
                   /\ r.items[i].created_at >= r.items[j].created_at

\* C12: a listing with a valid page p and limit k, by the owner, of an
\* account with n entries is answered 200 with exactly the entries at places
\* (p-1)k+1 .. min(pk, n) of the newest-first order, in that order, and with
\* total n; when (p-1)k >= n the items list is empty and the answer is still
\* 200.
C12_PageIsWindow ==
    \A p \in Procs :
        OwnListingAnswered(p) =>
            IsWindow(resp[p], LedgerOf(req[p].accountId), PageAsked(p), LimitAsked(p))

\* the same holds of the pages whose offset the store can take
PagesInRangeAreWindows ==
    \A p \in Procs :
        (OwnListingAnswered(p) /\ PageAsked(p) # AboveBigint) =>
            IsWindow(resp[p], LedgerOf(req[p].accountId), PageAsked(p), LimitAsked(p))

\* slot p holds a 200 answer to a listing
Listed(p) == pc[p] = "done" /\ req[p].op = "list" /\ resp[p].status = 200

\* the listing in slot q was requested right after the one in slot p was
\* answered, and nothing has been requested since: no write between the two
ListedInARow(p, q) ==
    /\ Listed(p) /\ Listed(q)
    /\ req[q].no = req[p].no + 1
    /\ Latest(q)
    /\ req[q].accountId = req[p].accountId

\* C13: two listings of the same account with the same page and limit and no
\* write between them return the same items in the same order, also when
\* entries of the account have equal creation timestamps.
C13_RepeatedListingSame ==
    \A p, q \in Procs :
        ( /\ ListedInARow(p, q)
          /\ PageAsked(p) = PageAsked(q)
          /\ LimitAsked(p) = LimitAsked(q) )
        => resp[p].items = resp[q].items

\* the ids of the items of an answer
ItemIds(r) == {r.items[i].id : i \in 1..Len(r.items)}

\* C14: with unchanged data, n entries and page size k, the pages 1 ..
\* ceil(n/k) hold every entry of the account exactly once: two different
\* pages fetched in a row share no entry, pages 1 and 2 together hold all
\* entries when n <= 2k, each page is in descending creation order and each
\* answer reports total = n.
C14_PagesPartitionLedger ==
    \A p, q \in Procs :
        ( /\ ListedInARow(p, q)
          /\ LimitAsked(p) = LimitAsked(q)
          /\ PageAsked(p) # PageAsked(q) )
        => LET E == LedgerOf(req[p].accountId) IN
           /\ ItemIds(resp[p]) \cap ItemIds(resp[q]) = {}
           /\ ( /\ {PageAsked(p), PageAsked(q)} = {1, 2}
                /\ Cardinality(E) <= 2 * LimitAsked(p) )
              => ItemIds(resp[p]) \cup ItemIds(resp[q]) = {e.id : e \in E}
           /\ resp[p].total = Cardinality(E)
           /\ resp[q].total = Cardinality(E)
           /\ \A r \in {resp[p], resp[q]} : \A i, j \in 1..Len(r.items) :
                 i < j => r.items[i].created_at >= r.items[j].created_at

\* C15: a listing shows the entries newest first: of two deposits to the
\* account of which the first was answered before the second was requested
\* (requests are served one at a time here, so the one with the lower request
\* number), the second stands before the first.
C15_LaterDepositListedFirst ==
    \A p \in Procs :
        (Listed(p) /\ Latest(p)) =>
            \A i, j \in 1..Len(resp[p].items) :
                EntryWithId(resp[p].items[i].id).xmin
                    > EntryWithId(resp[p].items[j].id).xmin
                => i < j

\* the string is a decimal integer: an optional sign, then digits only
IsIntegerNumeral(cs) ==
    LET from == IF Len(cs) >= 1 /\ cs[1] \in {"-", "+"} THEN 2 ELSE 1
    IN  /\ from <= Len(cs)
        /\ \A i \in from..Len(cs) : IsDigit(cs[i])

\* the parameter, or its default when left out, is an integer >= 1
IsPositiveInteger(param, dflt) ==
    /\ IsIntegerNumeral(OrDefault(param, dflt))
    /\ ParseInt(OrDefault(param, dflt)).val >= 1

\* C16: the listing's checks run in the order accountId present, page is an
\* integer >= 1, limit is an integer >= 1, limit <= 100, account exists,
\* caller owns the account; the first failing check decides the answer (so a
\* bad page or limit is reported also for an account that does not exist),
\* and a request passing all of them, limit = 100 included, is not refused.
\* (The lookup is judged for UUID-shaped accountIds only.)
C16_ListingCheckOrder ==
    \A p \in Procs :
        (GuardedDone(p) /\ req[p].op = "list") =>
            IF req[p].accountId = MissingId
            THEN IsError(resp[p], 400, "VALIDATION_ERROR", "accountId is required")
            ELSE IF ~IsPositiveInteger(req[p].page, DefaultPage)
            THEN IsError(resp[p], 400, "VALIDATION_ERROR",
                         "page must be a positive integer")
            ELSE IF ~IsPositiveInteger(req[p].limit, DefaultLimit)
            THEN IsError(resp[p], 400, "VALIDATION_ERROR",
                         "limit must be a positive integer")
            ELSE IF LimitAsked(p) > 100
            THEN IsError(resp[p], 400, "VALIDATION_ERROR", "limit cannot exceed 100")
            ELSE IF req[p].accountId = MalformedId THEN TRUE
            ELSE IF NamesNoAccount(p)
            THEN IsError(resp[p], 404, "NOT_FOUND", "Account not found")
            ELSE IF NamesForeignAccount(p) THEN Forbidden(resp[p])
            ELSE resp[p].status = 200

\* the order holds of the requests whose page and limit are integers or are
\* no numbers at all (no digits followed by other characters)
ListingCheckOrderOfPlainNumerals ==
    \A p \in Procs :
        ( /\ GuardedDone(p) /\ req[p].op = "list"
          /\ \A cs \in {OrDefault(req[p].page, DefaultPage),
                         OrDefault(req[p].limit, DefaultLimit)} :
                IsIntegerNumeral(cs) \/ ParseInt(cs).nan )
        => IF req[p].accountId = MissingId
           THEN IsError(resp[p], 400, "VALIDATION_ERROR", "accountId is required")
           ELSE IF ~IsPositiveInteger(req[p].page, DefaultPage)
           THEN IsError(resp[p], 400, "VALIDATION_ERROR",
                        "page must be a positive integer")
           ELSE IF ~IsPositiveInteger(req[p].limit, DefaultLimit)
           THEN IsError(resp[p], 400, "VALIDATION_ERROR",
                        "limit must be a positive integer")
           ELSE IF LimitAsked(p) > 100
           THEN IsError(resp[p], 400, "VALIDATION_ERROR", "limit cannot exceed 100")
           ELSE IF req[p].accountId = MalformedId THEN TRUE
           ELSE IF NamesNoAccount(p)
           THEN IsError(resp[p], 404, "NOT_FOUND", "Account not found")
           ELSE IF NamesForeignAccount(p) THEN Forbidden(resp[p])
           ELSE resp[p].status = 200

\* the page and limit of a request with the documented defaults written out
WithDefaults(q) ==
    [q EXCEPT !.page = IF q.page.present THEN q.page ELSE Str(<<"1">>),
              !.limit = IF q.limit.present THEN q.limit ELSE Str(<<"2", "0">>)]

LeavesOut(q) == ~q.page.present \/ ~q.limit.present

\* no two entries of account a have the same creation timestamp
NoTies(a) ==
    \A e, f \in LedgerOf(a) : e # f => e.created_at # f.created_at

\* C17: a listing that leaves out page or limit is answered as the same
\* request with page = 1 and limit = 20 is: a 200 answer echoes page 1 and
\* limit 20 and is a window of page 1 / limit 20 of the account's entries,
\* and the request with the values written out, sent right after it on
\* unchanged data, gets the same answer, whether 200 or an error (but for
\* the order the store gives to entries of equal timestamp, which may differ
\* between any two listings).
C17_DefaultsAreOneAndTwenty ==
    /\ \A p \in Procs :
          (OwnListingAnswered(p) /\ Listed(p) /\ LeavesOut(req[p])) =>
              /\ ~req[p].page.present => resp[p].page = 1
              /\ ~req[p].limit.present => resp[p].limit = 20
              /\ IsWindow(resp[p], LedgerOf(req[p].accountId),
                          ParseInt(WithDefaults(req[p]).page.chars).val,
                          ParseInt(WithDefaults(req[p]).limit.chars).val)
    /\ \A p, q \in Procs :
          ( /\ pc[p] = "done" /\ pc[q] = "done"
            /\ req[p].op = "list" /\ req[q].op = "list"
            /\ req[q].no = req[p].no + 1 /\ Latest(q)
            /\ LeavesOut(req[p])
            /\ req[q].auth = req[p].auth
            /\ req[q].accountId = req[p].accountId
            /\ req[q].page = WithDefaults(req[p]).page
            /\ req[q].limit = WithDefaults(req[p]).limit )
          => /\ resp[q].status = resp[p].status
             /\ resp[q].page = resp[p].page
             /\ resp[q].limit = resp[p].limit
             /\ resp[q].total = resp[p].total
             /\ NoTies(req[p].accountId) => resp[q] = resp[p]

\* a listing without page and limit of an account with two entries of
\* different timestamps, followed by the one with page=1&limit=20, got the
\* same answer of two items
C17_Witness ==
    \E p, q \in Procs :
        /\ ListedInARow(p, q)
        /\ ~req[p].page.present /\ ~req[p].limit.present
        /\ req[q].page = Str(<<"1">>) /\ req[q].limit = Str(<<"2", "0">>)
        /\ NoTies(req[p].accountId)
        /\ Len(resp[p].items) = 2
        /\ resp[p].page = 1 /\ resp[p].limit = 20
        /\ resp[q] = resp[p]

\* C18: every item of a 200 listing of account A has account_id = A and the
\* total is the number of A's entries, whatever was deposited to other
\* accounts of the same or of another user.
C18_ListingOfOneAccountOnly ==
    \A p \in Procs :
        (Listed(p) /\ Latest(p)) =>
            /\ \A i \in 1..Len(resp[p].items) :
                  resp[p].items[i].account_id = req[p].accountId
            /\ resp[p].total
                  = Cardinality({e \in transactions : e.account_id = req[p].accountId})

\* an account with an entry was listed by its owner while another account,
\* of the same or of the other user, had an entry too
C18_Witness ==
    \E p \in Procs :
        /\ Listed(p) /\ Latest(p)
        /\ Len(resp[p].items) >= 1
        /\ \E e \in transactions : e.account_id # req[p].accountId

\* the step is the COMMIT of the deposit in slot p, answered 201
CommitsDeposit(p) ==
    /\ req[p].op = "deposit"
    /\ pc[p] = "commit" /\ pc'[p] = "done"
    /\ resp'[p].status = 201

\* a step of a listing handler leaves both tables as they are, and a balance
\* changes only in the COMMIT of a deposit to that account answered 201
OnlyDepositCommitWrites ==
    /\ \A p \in Procs :
          ((req[p].op = "list" \/ req'[p].op = "list") /\ pc'[p] # pc[p])
              => accounts' = accounts /\ transactions' = transactions
    /\ \A a \in DOMAIN accounts :
          (a \notin DOMAIN accounts' \/ accounts'[a].balance # accounts[a].balance)
              => \E p \in Procs : CommitsDeposit(p) /\ req[p].accountId = a

\* C19: a listing request, successful or failed, changes no account balance
\* and no ledger entry, and an account's balance changes only in the commit
\* of a successful deposit to that account.
C19_ListingReadOnly == [][OnlyDepositCommitWrites]_vars

\* a listing was answered 200 and the listed account had a balance that a
\* deposit had committed
C19_Witness ==
    \E p \in Procs :
        /\ Listed(p)
        /\ resp[p].total >= 1
        /\ accounts[req[p].accountId].balance > 0

\* the step is one of the deposit handler in slot p
DepositSteps(p) == req[p].op = "deposit" /\ pc'[p] # pc[p] /\ pc[p] # "done"

\* no step changes the owner or the currency of an account or removes or
\* alters an entry; a step of a deposit to account A leaves every other
\* account as it was and adds at most one entry, to A; its COMMIT adds exactly
\* one
DepositTouchesOnlyItsAccount ==
    /\ \A a \in DOMAIN accounts :
          /\ a \in DOMAIN accounts'
          /\ accounts'[a].user_id = accounts[a].user_id
          /\ accounts'[a].currency = accounts[a].currency
    /\ transactions \subseteq transactions'
    /\ \A p \in Procs :
          DepositSteps(p) =>
              /\ DOMAIN accounts' = DOMAIN accounts
              /\ \A a \in DOMAIN accounts \ {req[p].accountId} :
                    accounts'[a] = accounts[a]
              /\ \A e \in transactions' \ transactions :
                    e.account_id = req[p].accountId
              /\ Cardinality(transactions' \ transactions)
                    = (IF CommitsDeposit(p) THEN 1 ELSE 0)

\* C20: a deposit to account A changes only A's balance and adds one entry to
\* A; the balance and entries of every other account, the owner and currency
\* of every account and all existing entries stay as they are.
C20_DepositFrame == [][DepositTouchesOnlyItsAccount]_vars

\* a deposit was committed to one of two existing accounts and the other
\* account still has its zero balance and no entry
C20_Witness ==
    \E p \in Procs : \E b \in DOMAIN accounts :
        /\ DepositDone(p) /\ resp[p].status = 201
        /\ b # req[p].accountId
        /\ accounts[req[p].accountId].balance > 0
        /\ accounts[b].balance = 0
        /\ \A e \in transactions : e.account_id # b

\* ------------------------------------------------------------------- C21
\* C21: in every reachable state, whatever requests were served and however
\* they ended, the stored balance of every account is at least zero; so is
\* the balance an open deposit has written and not yet committed.
C21_BalanceNeverNegative ==
    /\ \A a \in DOMAIN accounts : accounts[a].balance >= 0
    /\ \A p \in Procs : tx[p].balSet => tx[p].bal >= 0

\* an account holding money has been named by a deposit of a negative
\* amount, which was refused, and by an accepted one
C21_Witness ==
    \E p, q \in Procs :
        /\ req[p].op = "deposit" /\ req[q].op = "deposit"
        /\ req[p].accountId \in DOMAIN accounts
        /\ req[q].accountId = req[p].accountId
        /\ req[p].amount.type = "number" /\ req[p].amount.val < 0
        /\ pc[p] = "done" /\ resp[p].status = 400
        /\ pc[q] = "done" /\ resp[q].status = 201
        /\ accounts[req[p].accountId].balance > 0

\* ------------------------------------------------------------------- C22
\* handler slot p holds a deposit or a listing of an authenticated caller
PastAuthentication(p) ==
    /\ req[p].op \in {"deposit", "list"}
    /\ authMiddleware(req[p].auth).status = 0

\* C22: no deposit or listing that passed authentication ends without a
\* response (its handler is never left with the request unanswered), and
\* one that met a store fault at any of its steps has been answered 500
\* INTERNAL_ERROR once its handler has ended.
C22_EveryRequestAnswered ==
    \A p \in Procs :
        PastAuthentication(p) =>
            /\ pc[p] # "hung"
            /\ (pc[p] = "done" /\ local[p].fault)
                  => /\ resp[p].status = 500
                     /\ resp[p].code = "INTERNAL_ERROR"

\* ------------------------------------------------------------------- C23
\* C23: in every step, each committed ledger entry either stays in the
\* ledger with the same id, account, type, amount, reference and creation
\* time, or is gone together with its account; no step changes an entry and
\* no step removes an entry whose account remains.
C23_EntryImmutableUntilAccountDeleted ==
    [][\A e \in transactions :
          /\ \A f \in transactions' : f.id = e.id => ItemOf(f) = ItemOf(e)
          /\ (~\E f \in transactions' : f.id = e.id)
                => e.account_id \notin DOMAIN accounts']_vars

\* ------------------------------------------------------------------- C24
\* C24: in every committed state, under every interleaving of deposits and
\* account openings with the deletion of accounts, users and entries, each
\* ledger entry's account exists and each account's user exists; so a
\* deleted account leaves no entry and a deleted user leaves no account, and
\* a deposit that races with the deletion of its account leaves no entry.
C24_ReferentialIntegrity ==
    /\ \A e \in transactions : e.account_id \in DOMAIN accounts
    /\ \A a \in DOMAIN accounts : accounts[a].user_id \in users

\* a deposit read its account's row, the account was deleted before the
\* deposit's INSERT, and the deposit has ended
C24_Witness ==
    \E p \in Procs :
        /\ req[p].op = "deposit" /\ pc[p] = "done"
        /\ local[p].account # NoRow
        /\ local[p].account.id = req[p].accountId
        /\ req[p].accountId \notin DOMAIN accounts
        /\ resp[p].status = 500

\* ------------------------------------------------------------------- C25
\* the route a request was sent to
RouteOf(i) ==
    CASE i.op = "deposit" -> "/deposits"
      [] i.op = "list" -> "/transactions"
      [] i.op \in {"create", "get"} -> "/accounts"
      [] i.op = "me" -> "/me"
      [] OTHER -> i.path

ProtectedRoutes == {"/deposits", "/transactions", "/accounts", "/me"}

\* a request to a protected route that carries no valid, unexpired token
NoValidToken(i) ==
    /\ RouteOf(i) \in ProtectedRoutes
    /\ authMiddleware(i.auth).status # 0

\* C25: a request to /deposits, /transactions, /accounts or /me without a
\* valid, unexpired Bearer token is answered 401 UNAUTHORIZED in the step of
\* its arrival, whatever its other inputs are, with no store call made for
\* it, and that step leaves users, accounts and entries as they are.
C25_UnauthenticatedIsUnauthorized ==
    /\ [](\A p \in Procs :
            NoValidToken(req[p]) =>
                /\ pc[p] = "done"
                /\ resp[p].status = 401 /\ resp[p].code = "UNAUTHORIZED"
                /\ NoStoreCall(p))
    /\ [][\A p \in Procs :
            (NoValidToken(req'[p]) /\ req'[p] # req[p])
                => /\ users' = users
                   /\ accounts' = accounts
                   /\ transactions' = transactions]_vars

\* ------------------------------------------------------------------- C26
\* the accounts written by request number n
AccountsBy(n) == {a \in DOMAIN accounts : accounts[a].xmin = n}

\* slot p holds the latest request, an answered POST /accounts of an
\* authenticated caller
CreateDone(p) ==
    /\ pc[p] = "done"
    /\ req[p].op = "create"
    /\ authMiddleware(req[p].auth).status = 0
    /\ Latest(p)

GetDone(p) ==
    /\ pc[p] = "done"
    /\ req[p].op = "get"
    /\ authMiddleware(req[p].auth).status = 0

\* the account named by the request in slot p exists and is another user's
ForeignAccount(p) ==
    /\ req[p].accountId \in DOMAIN accounts
    /\ accounts[req[p].accountId].user_id # req[p].auth.userId

\* C27: GET /accounts/:id answers 200 only with an account owned by the
\* caller (and does so for the caller's own account); for another user's
\* account it answers 404 NOT_FOUND 'Account not found', and that response
\* equals, field by field, the response to a well-formed id that no account
\* has.
C27_ForeignAccountLooksAbsent ==
    /\ \A p \in Procs :
          (GetDone(p) /\ Latest(p)) =>
              /\ resp[p].status = 200
                    <=> /\ req[p].accountId \in DOMAIN accounts
                        /\ accounts[req[p].accountId].user_id = req[p].auth.userId
              /\ resp[p].status = 200 => resp[p].id = req[p].accountId
              /\ ForeignAccount(p) =>
                    IsError(resp[p], 404, "NOT_FOUND", "Account not found")
    /\ \A p, q \in Procs :
          ( /\ GetDone(p) /\ GetDone(q)
            /\ ForeignAccount(p)
            /\ req[q].accountId = UnknownId )
          => resp[p] = resp[q]

\* the other user has asked for the owner's account and for an id that no
\* account has; both answers are at hand
C27_Witness ==
    \E p, q \in Procs :
        /\ GetDone(p) /\ GetDone(q)
        /\ req[p].auth = req[q].auth
        /\ ForeignAccount(p)
        /\ req[q].accountId = UnknownId

\* ------------------------------------------------------------------- C28
\* C28: the newBalance of a deposit's 201 response is the balance that the
\* deposit's commit has stored for the account (read before any later
\* request), for every accepted amount.
C28_NewBalanceIsStoredBalance ==
    \A p \in Procs :
        (DepositDone(p) /\ resp[p].status = 201 /\ Latest(p)) =>
            resp[p].newBalance = ParseFloat(accounts[req[p].accountId].balance)

\* ------------------------------------------------------------------- C29
\* C29: in every 200 response of a listing, the number of items is
\* min(limit, max(0, total - (page - 1) * limit)) for the total, page and
\* limit of that same response, and is never above the total, whatever
\* deposits commit while the listing is served.
C29_ItemsMatchTotal ==
    \A p \in Procs :
        Listed(p) =>
            /\ Len(resp[p].items)
                  = PageLength(resp[p].total, resp[p].page, resp[p].limit)
            /\ Len(resp[p].items) <= resp[p].total

\* ------------------------------------------------------------------- C30
\* C30: a deposit's client is released only by the handler that holds it
\* and then stays released (one release per acquisition); every deposit
\* that has been answered has released the client it acquired; and a
\* client is never released while the transaction begun on it is open: a
\* COMMIT or a ROLLBACK has completed after the BEGIN.
C30_ClientReleasedAfterTransactionEnds ==
    /\ [](\A p \in Procs :
            req[p].op = "deposit" =>
                /\ local[p].client = "released" => local[p].txn # "open"
                /\ pc[p] = "done" => local[p].client # "held")
    /\ [][\A p \in Procs :
            (local'[p].client = "released" /\ local[p].client # "released")
                => local[p].client = "held"]_vars

====
